---- MODULE Spec2Model ----
(***************************************************************************)
(* A model of the block encoding and of the two outer iterator layers of   *)
(* mini-lsm:                                                               *)
(*   - LsmIterator   (lsm_iterator.rs): upper bound + tombstone skipping   *)
(*   - FusedIterator (lsm_iterator.rs): sticky error flag, guarded access  *)
(*   - BlockBuilder  (block/builder.rs) and Block (block.rs)               *)
(* The iterator layers are checked under SpecIter, the block layer under   *)
(* SpecBlock (small blocks, any keys and values) and under SpecWide (one   *)
(* run of two-byte keys, up to 2^16 entries).  Further specifications:     *)
(* SpecExample (blocks of the keys "apple" and "application"), SpecDecode  *)
(* (decode of arbitrary short buffers), SpecLong (builders given a value   *)
(* of almost 2^16 bytes) and SpecScan (a fair scan of a finite stream to   *)
(* its end).                                                               *)
(***************************************************************************)
EXTENDS Integers, Sequences, FiniteSets, TLC

VARIABLES
    \* ---- the inner (merged) iterator owned by LsmIterator ----
    stream,        \* the entries the inner iterator yields, in order
    inner,         \* LsmIterator.inner: [pos, will_fail, fail_after]
    \* ---- LsmIterator ----
    lsm,           \* "none" (not constructed), "live", "failed" (new returned Err)
    end_bound,     \* LsmIterator.end_bound
    is_valid,      \* LsmIterator.is_valid
    lsm_res,       \* result of the last LsmIterator::new / ::next call
    \* ---- FusedIterator ----
    fused,         \* "none" (LsmIterator not wrapped yet), "live"
    has_errored,   \* FusedIterator.has_errored
    wrapped_err,   \* history: a wrapped next() has returned Err to the FusedIterator
    \* ---- the last call and what it returned ----
    op,            \* name of the last operation called
    res,           \* "ok", "err_inner", "err_invalid_op", "panic"
    out,           \* the key or value returned by the last key()/value()
    wrapped_calls, \* wrapped next() calls made by the last FusedIterator call
    inner_calls,   \* inner next() calls made by the last call
    aborted,       \* a panic has unwound the caller
    \* ---- BlockBuilder ----
    offsets,       \* BlockBuilder.offsets
    data,          \* BlockBuilder.data
    block_size,    \* BlockBuilder.block_size
    first_key,     \* BlockBuilder.first_key
    accepted,      \* history: the (key, value) pairs add() has accepted, in order
    arg_key,       \* key of the last add() call
    arg_value,     \* value of the last add() call
    ret,           \* what the last add() returned: "none", "true", "false"
    bop,           \* name of the last block operation called
    \* ---- Block ----
    bphase,        \* "building", "built", "encoded", "decoded"
    block,         \* the Block build() returned
    encoded,       \* block.encode()
    decoded,       \* Block::decode(encoded)
    \* ---- a BlockBuilder filled with the run of two-byte keys (SpecWide) ----
    run,           \* the builder is Prefilled(run, WideBlockSize)
    wret,          \* what the last add() on it returned: "none", "true", "false"
    wphase,        \* "idle", "building", "built", "encoded", "decoded"
    round_trip,    \* what Block::decode(block.encode()) gave, against block
    \* ---- a BlockBuilder given long values (SpecLong) ----
    long_entries,  \* the entries add() has accepted, each as [key, value_len]
    long_size,     \* the builder's block_size
    long_ret       \* what the last add() on it returned: "none", "true", "false"

iter_vars  == << stream, inner, lsm, end_bound, is_valid, lsm_res, fused, has_errored,
                 wrapped_err, op, res, out, wrapped_calls, inner_calls, aborted >>
block_vars == << offsets, data, block_size, first_key, accepted, arg_key, arg_value,
                 ret, bop, bphase, block, encoded, decoded >>
wide_vars  == << run, wret, wphase, round_trip >>
long_vars  == << long_entries, long_size, long_ret >>
vars       == << iter_vars, block_vars, wide_vars, long_vars >>

(***************************************************************************)
(* Bounds of the model.                                                    *)
(***************************************************************************)
MaxKeyByte   == 2   \* iterator keys are <<i>> and <<i, 1>> for i in 1..MaxKeyByte
MaxFailAfter == 2   \* an injected inner failure hits one of the first MaxFailAfter+1 calls
MaxKeyLen    == 2   \* block keys are the byte strings over {1, 2} of length 0..MaxKeyLen
MaxValueLen  == 1   \* block values are 0..MaxValueLen bytes long
MaxEntries   == 3   \* add() is called on builders holding fewer than MaxEntries entries
MinBlockSize == 17  \* block_size ranges over MinBlockSize..MaxBlockSize
MaxBlockSize == 28
WideBlockSize == 1048576  \* block_size of the builders that hold a run of two-byte keys
MaxRunSteps  == 12  \* add() calls made on such a builder after its starting point
LongValueLen == 65530  \* the long value: with an empty key its entry is 65536 bytes
LongBlockSize == 65600  \* the largest block_size of the builders given long values
MaxScanLen   == 2   \* the streams scanned to their end hold at most MaxScanLen entries
MaxBufByte   == 2   \* decode is given the buffers over 0..MaxBufByte of length 0..MaxBufLen
MaxBufLen    == 4
MinExampleSize == 28  \* block_size of the builders fed "apple" and "application"
MaxExampleSize == 37

(***************************************************************************)
(* Byte strings are sequences of bytes.  Rust compares slices              *)
(* lexicographically (lsm_iterator.rs:67-68 use <= and < on &[u8]).        *)
(***************************************************************************)
RECURSIVE LexLess(_, _)
LexLess(a, b) ==
    IF b = <<>> THEN FALSE
    ELSE IF a = <<>> THEN TRUE
    ELSE IF a[1] < b[1] THEN TRUE
    ELSE IF a[1] > b[1] THEN FALSE
    ELSE LexLess(Tail(a), Tail(b))

LexLeq(a, b) == a = b \/ LexLess(a, b)

(***************************************************************************)
(* The inner iterator (TwoMergeIterator over MergeIterators).  Its code is *)
(* outside the excerpt; it is modelled from the StorageIterator contract:  *)
(* a cursor over a stream sorted by strictly ascending key, whose next()   *)
(* may fail.  A failure is injected once, at the call chosen by            *)
(* fail_after; a failed call leaves the cursor where it was.               *)
(***************************************************************************)
inner_is_valid(it) == it.pos <= Len(stream)

inner_key(it) == stream[it.pos].key

inner_value(it) == stream[it.pos].value

inner_next(it) ==
    IF it.will_fail /\ it.fail_after = 0
    THEN [ok |-> FALSE, it |-> [it EXCEPT !.will_fail = FALSE], calls |-> 1]
    ELSE [ok |-> TRUE,
          it |-> [it EXCEPT !.pos = IF @ <= Len(stream) THEN @ + 1 ELSE @,
                            !.fail_after = IF it.will_fail THEN @ - 1 ELSE @],
          calls |-> 1]

(***************************************************************************)
(* LsmIterator.  An LsmIterator value is [inner, is_valid]; end_bound      *)
(* never changes after construction.  Every operation returns              *)
(* [ok, lsm, calls]: ok is FALSE for Err, calls counts inner next() calls. *)
(***************************************************************************)
within_bound(key) ==
    CASE end_bound.kind = "Unbounded" -> TRUE
      [] end_bound.kind = "Included"  -> LexLeq(key, end_bound.key)
      [] end_bound.kind = "Excluded"  -> LexLess(key, end_bound.key)

\* next_inner with the exclusive bound tested by `!=` instead of `<`
next_inner_ne(L) ==
    LET r == inner_next(L.inner) IN
    IF ~r.ok
    THEN [ok |-> FALSE, lsm |-> [L EXCEPT !.inner = r.it], calls |-> r.calls]
    ELSE IF ~inner_is_valid(r.it)
    THEN [ok |-> TRUE, lsm |-> [inner |-> r.it, is_valid |-> FALSE], calls |-> r.calls]
    ELSE [ok |-> TRUE,
          lsm |-> [inner |-> r.it,
                   is_valid |-> CASE end_bound.kind = "Unbounded" -> L.is_valid
                                  [] end_bound.kind = "Included" ->
                                         LexLeq(inner_key(r.it), end_bound.key)
                                  [] end_bound.kind = "Excluded" ->
                                         inner_key(r.it) # end_bound.key],
          calls |-> r.calls]

\* next_inner with the inclusive bound tested by `<` instead of `<=`
next_inner_strict(L) ==
    LET r == inner_next(L.inner) IN
    IF ~r.ok
    THEN [ok |-> FALSE, lsm |-> [L EXCEPT !.inner = r.it], calls |-> r.calls]
    ELSE IF ~inner_is_valid(r.it)
    THEN [ok |-> TRUE, lsm |-> [inner |-> r.it, is_valid |-> FALSE], calls |-> r.calls]
    ELSE [ok |-> TRUE,
          lsm |-> [inner |-> r.it,
                   is_valid |-> IF end_bound.kind = "Unbounded"
                                THEN L.is_valid
                                ELSE LexLess(inner_key(r.it), end_bound.key)],
          calls |-> r.calls]

next_inner(L) ==
    LET r == inner_next(L.inner) IN
    IF ~r.ok
    THEN [ok |-> FALSE, lsm |-> [L EXCEPT !.inner = r.it], calls |-> r.calls]
    ELSE IF ~inner_is_valid(r.it)
    THEN [ok |-> TRUE, lsm |-> [inner |-> r.it, is_valid |-> FALSE], calls |-> r.calls]
    ELSE [ok |-> TRUE,
          lsm |-> [inner |-> r.it,
                   is_valid |-> IF end_bound.kind = "Unbounded"
                                THEN L.is_valid
                                ELSE within_bound(inner_key(r.it))],
          calls |-> r.calls]

\* skip_deleted with `if` for `while`: at most one tombstone is skipped
skip_deleted_once(L) ==
    IF L.is_valid /\ inner_value(L.inner) = <<>>
    THEN next_inner(L)
    ELSE [ok |-> TRUE, lsm |-> L, calls |-> 0]

\* skip_deleted that retries after a failed advance instead of returning the error
RECURSIVE skip_deleted_retry(_)
skip_deleted_retry(L) ==
    IF L.is_valid /\ inner_value(L.inner) = <<>>
    THEN LET r == next_inner(L)
             t == skip_deleted_retry(r.lsm)
         IN [ok |-> t.ok, lsm |-> t.lsm, calls |-> r.calls + t.calls]
    ELSE [ok |-> TRUE, lsm |-> L, calls |-> 0]

RECURSIVE skip_deleted(_)
skip_deleted(L) ==
    IF L.is_valid /\ inner_value(L.inner) = <<>>
    THEN LET r == next_inner(L) IN
         IF ~r.ok THEN r
         ELSE LET t == skip_deleted(r.lsm) IN
              [ok |-> t.ok, lsm |-> t.lsm, calls |-> r.calls + t.calls]
    ELSE [ok |-> TRUE, lsm |-> L, calls |-> 0]

LsmIterator_new(it) ==
    skip_deleted([inner |-> it, is_valid |-> inner_is_valid(it)])

LsmIterator_next(L) ==
    LET r == next_inner(L) IN
    IF ~r.ok THEN r
    ELSE LET t == skip_deleted(r.lsm) IN
         [ok |-> t.ok, lsm |-> t.lsm, calls |-> r.calls + t.calls]

LsmIterator_is_valid(L) == L.is_valid

LsmIterator_key(L) == inner_key(L.inner)

LsmIterator_value(L) == inner_value(L.inner)

(***************************************************************************)
(* FusedIterator.  A FusedIterator value is [iter, has_errored].           *)
(***************************************************************************)
FusedIterator_new(L) == [iter |-> L, has_errored |-> FALSE]

FusedIterator_is_valid(F) == ~F.has_errored /\ LsmIterator_is_valid(F.iter)

\* key() that checks the wrapped iterator only and forgets has_errored
FusedIterator_key_unfused(F) ==
    IF ~LsmIterator_is_valid(F.iter)
    THEN [res |-> "panic", out |-> <<>>]
    ELSE [res |-> "ok", out |-> LsmIterator_key(F.iter)]

FusedIterator_key(F) ==
    IF ~FusedIterator_is_valid(F)
    THEN [res |-> "panic", out |-> <<>>]
    ELSE [res |-> "ok", out |-> LsmIterator_key(F.iter)]

\* value() that hands out the wrapped iterator's key
FusedIterator_value_key(F) ==
    IF ~FusedIterator_is_valid(F)
    THEN [res |-> "panic", out |-> <<>>]
    ELSE [res |-> "ok", out |-> LsmIterator_key(F.iter)]

FusedIterator_value(F) ==
    IF ~FusedIterator_is_valid(F)
    THEN [res |-> "panic", out |-> <<>>]
    ELSE [res |-> "ok", out |-> LsmIterator_value(F.iter)]

\* next() that returns the error without recording it
FusedIterator_next_unrecorded(F) ==
    IF F.has_errored
    THEN [res |-> "err_invalid_op", fused |-> F, wrapped_calls |-> 0, calls |-> 0]
    ELSE IF LsmIterator_is_valid(F.iter)
    THEN LET r == LsmIterator_next(F.iter) IN
         IF ~r.ok
         THEN [res |-> "err_inner", fused |-> [iter |-> r.lsm, has_errored |-> F.has_errored],
               wrapped_calls |-> 1, calls |-> r.calls]
         ELSE [res |-> "ok", fused |-> [iter |-> r.lsm, has_errored |-> F.has_errored],
               wrapped_calls |-> 1, calls |-> r.calls]
    ELSE [res |-> "ok", fused |-> F, wrapped_calls |-> 0, calls |-> 0]

\* next() that advances the wrapped iterator without asking whether it is valid
FusedIterator_next_unguarded(F) ==
    IF F.has_errored
    THEN [res |-> "err_invalid_op", fused |-> F, wrapped_calls |-> 0, calls |-> 0]
    ELSE LET r == LsmIterator_next(F.iter) IN
         IF ~r.ok
         THEN [res |-> "err_inner", fused |-> [iter |-> r.lsm, has_errored |-> TRUE],
               wrapped_calls |-> 1, calls |-> r.calls]
         ELSE [res |-> "ok", fused |-> [iter |-> r.lsm, has_errored |-> F.has_errored],
               wrapped_calls |-> 1, calls |-> r.calls]

\* next() with the validity test inverted: a valid wrapped iterator is not advanced
FusedIterator_next_inverted(F) ==
    IF F.has_errored
    THEN [res |-> "err_invalid_op", fused |-> F, wrapped_calls |-> 0, calls |-> 0]
    ELSE IF ~LsmIterator_is_valid(F.iter)
    THEN LET r == LsmIterator_next(F.iter) IN
         IF ~r.ok
         THEN [res |-> "err_inner", fused |-> [iter |-> r.lsm, has_errored |-> TRUE],
               wrapped_calls |-> 1, calls |-> r.calls]
         ELSE [res |-> "ok", fused |-> [iter |-> r.lsm, has_errored |-> F.has_errored],
               wrapped_calls |-> 1, calls |-> r.calls]
    ELSE [res |-> "ok", fused |-> F, wrapped_calls |-> 0, calls |-> 0]

FusedIterator_next(F) ==
    IF F.has_errored
    THEN [res |-> "err_invalid_op", fused |-> F, wrapped_calls |-> 0, calls |-> 0]
    ELSE IF LsmIterator_is_valid(F.iter)
    THEN LET r == LsmIterator_next(F.iter) IN
         IF ~r.ok
         THEN [res |-> "err_inner", fused |-> [iter |-> r.lsm, has_errored |-> TRUE],
               wrapped_calls |-> 1, calls |-> r.calls]
         ELSE [res |-> "ok", fused |-> [iter |-> r.lsm, has_errored |-> F.has_errored],
               wrapped_calls |-> 1, calls |-> r.calls]
    ELSE [res |-> "ok", fused |-> F, wrapped_calls |-> 0, calls |-> 0]

(***************************************************************************)
(* The iterator chain as a state machine.  The caller constructs the       *)
(* LsmIterator, may advance it directly, then hands it to a FusedIterator, *)
(* which owns it from then on.                                             *)
(***************************************************************************)
IterKeys == { <<i>> : i \in 1..MaxKeyByte } \cup { <<i, 1>> : i \in 1..MaxKeyByte }

IterValues == { <<>>, <<7>> }

\* the streams of strictly ascending keys, each entry live or a tombstone
Ascending(ks) == \A i \in 1..(Len(ks) - 1) : LexLess(ks[i], ks[i + 1])

KeyRuns ==
    { ks \in UNION { [1..n -> IterKeys] : n \in 0..Cardinality(IterKeys) } : Ascending(ks) }

Streams ==
    UNION { { [i \in 1..Len(ks) |-> [key |-> ks[i], value |-> v[i]]] :
              v \in [1..Len(ks) -> IterValues] } : ks \in KeyRuns }

Bounds ==
    { [kind |-> "Unbounded", key |-> <<>>] }
    \cup { [kind |-> k, key |-> b] : k \in {"Included", "Excluded"}, b \in IterKeys }

Failures ==
    { [will_fail |-> FALSE, fail_after |-> 0] }
    \cup { [will_fail |-> TRUE, fail_after |-> n] : n \in 0..MaxFailAfter }

TheLsm == [inner |-> inner, is_valid |-> is_valid]

TheFused == [iter |-> TheLsm, has_errored |-> has_errored]

InitIter ==
    /\ stream \in Streams
    /\ end_bound \in Bounds
    /\ \E f \in Failures :
          inner = [pos |-> 1, will_fail |-> f.will_fail, fail_after |-> f.fail_after]
    /\ lsm = "none"
    /\ is_valid = FALSE
    /\ lsm_res = "none"
    /\ fused = "none"
    /\ has_errored = FALSE
    /\ wrapped_err = FALSE
    /\ op = "none"
    /\ res = "none"
    /\ out = <<>>
    /\ wrapped_calls = 0
    /\ inner_calls = 0
    /\ aborted = FALSE

\* LsmIterator::new(iter, end_bound)
LsmNew ==
    /\ UNCHANGED << block_vars, wide_vars, long_vars >>
    /\ lsm = "none" /\ ~aborted
    /\ LET r == LsmIterator_new(inner) IN
       /\ lsm' = IF r.ok THEN "live" ELSE "failed"
       /\ inner' = r.lsm.inner
       /\ is_valid' = r.lsm.is_valid
       /\ lsm_res' = IF r.ok THEN "ok" ELSE "err"
       /\ res' = IF r.ok THEN "ok" ELSE "err_inner"
       /\ inner_calls' = r.calls
    /\ op' = "lsm_new"
    /\ wrapped_calls' = 0
    /\ UNCHANGED << stream, end_bound, fused, has_errored, wrapped_err, out, aborted >>

\* LsmIterator::next() called by the owner of a LsmIterator that is not wrapped
LsmNext ==
    /\ UNCHANGED << block_vars, wide_vars, long_vars >>
    /\ lsm = "live" /\ fused = "none" /\ ~aborted
    /\ LET r == LsmIterator_next(TheLsm) IN
       /\ inner' = r.lsm.inner
       /\ is_valid' = r.lsm.is_valid
       /\ lsm_res' = IF r.ok THEN "ok" ELSE "err"
       /\ res' = IF r.ok THEN "ok" ELSE "err_inner"
       /\ inner_calls' = r.calls
    /\ op' = "lsm_next"
    /\ wrapped_calls' = 0
    /\ UNCHANGED << stream, lsm, end_bound, fused, has_errored, wrapped_err, out, aborted >>

\* FusedIterator::new(iter)
FusedNew ==
    /\ UNCHANGED << block_vars, wide_vars, long_vars >>
    /\ lsm = "live" /\ fused = "none" /\ ~aborted
    /\ LET F == FusedIterator_new(TheLsm) IN
       /\ has_errored' = F.has_errored
       /\ inner' = F.iter.inner
       /\ is_valid' = F.iter.is_valid
    /\ fused' = "live"
    /\ op' = "fused_new"
    /\ res' = "ok"
    /\ wrapped_calls' = 0
    /\ inner_calls' = 0
    /\ UNCHANGED << stream, lsm, end_bound, lsm_res, wrapped_err, out, aborted >>

\* FusedIterator::next()
FusedNext ==
    /\ UNCHANGED << block_vars, wide_vars, long_vars >>
    /\ fused = "live" /\ ~aborted
    /\ LET r == FusedIterator_next(TheFused) IN
       /\ has_errored' = r.fused.has_errored
       /\ inner' = r.fused.iter.inner
       /\ is_valid' = r.fused.iter.is_valid
       /\ res' = r.res
       /\ wrapped_calls' = r.wrapped_calls
       /\ inner_calls' = r.calls
       /\ lsm_res' = IF r.wrapped_calls = 0 THEN lsm_res
                     ELSE IF r.res = "ok" THEN "ok" ELSE "err"
       /\ wrapped_err' = (wrapped_err \/ (r.wrapped_calls > 0 /\ r.res = "err_inner"))
    /\ op' = "fused_next"
    /\ UNCHANGED << stream, lsm, end_bound, fused, out, aborted >>

\* FusedIterator::key()
FusedKey ==
    /\ UNCHANGED << block_vars, wide_vars, long_vars >>
    /\ fused = "live" /\ ~aborted
    /\ LET r == FusedIterator_key(TheFused) IN
       /\ res' = r.res
       /\ out' = IF r.res = "panic" THEN out ELSE r.out
       /\ aborted' = (r.res = "panic")
    /\ op' = "fused_key"
    /\ wrapped_calls' = 0
    /\ inner_calls' = 0
    /\ UNCHANGED << stream, inner, lsm, end_bound, is_valid, lsm_res, fused, has_errored,
                    wrapped_err >>

\* FusedIterator::value()
FusedValue ==
    /\ UNCHANGED << block_vars, wide_vars, long_vars >>
    /\ fused = "live" /\ ~aborted
    /\ LET r == FusedIterator_value(TheFused) IN
       /\ res' = r.res
       /\ out' = IF r.res = "panic" THEN out ELSE r.out
       /\ aborted' = (r.res = "panic")
    /\ op' = "fused_value"
    /\ wrapped_calls' = 0
    /\ inner_calls' = 0
    /\ UNCHANGED << stream, inner, lsm, end_bound, is_valid, lsm_res, fused, has_errored,
                    wrapped_err >>

(***************************************************************************)
(* Fixed-width integers and the byte buffer primitives of bytes::BufMut.   *)
(***************************************************************************)
U16Modulus == 65536

\* x as u16
as_u16(x) == x % U16Modulus

\* BufMut::put_u16: two bytes, big-endian
be_bytes(x) == << x \div 256, x % 256 >>

put_u16(buf, x) == buf \o be_bytes(x)

\* u16::from_be_bytes / Buf::get_u16 on the two bytes at buf[at], buf[at + 1]
get_u16(buf, at) == buf[at] * 256 + buf[at + 1]

(***************************************************************************)
(* BlockBuilder.  A builder value is [offsets, data, block_size,           *)
(* first_key].                                                             *)
(***************************************************************************)
BlockBuilder_new(size) ==
    [offsets |-> <<>>, data |-> <<>>, block_size |-> size, first_key |-> <<>>]

is_empty(B) == B.offsets = <<>>

RECURSIVE overlap_loop(_, _, _)
\* the loop counting the first mismatching byte as part of the overlap
overlap_loop_inclusive(fk, key, overlap) ==
    IF overlap >= Len(key) \/ overlap >= Len(fk) THEN overlap
    ELSE IF fk[overlap + 1] # key[overlap + 1] THEN overlap + 1
    ELSE overlap_loop(fk, key, overlap + 1)

overlap_loop(fk, key, overlap) ==
    IF overlap >= Len(key) \/ overlap >= Len(fk) THEN overlap
    ELSE IF fk[overlap + 1] # key[overlap + 1] THEN overlap
    ELSE overlap_loop(fk, key, overlap + 1)

compute_key_overlap(B, key) == overlap_loop(B.first_key, key, 0)

\* the size check with the entry's six bytes of fixed fields left out
is_full_no_fields(B, key, value) ==
    /\ ~is_empty(B)
    /\ LET curr_block_size == Len(B.data) + Len(B.offsets) * 2 + 2
       IN curr_block_size + Len(key) + Len(value) > B.block_size

\* the size check of add: TRUE when the entry is rejected
is_full(B, key, value) ==
    /\ ~is_empty(B)
    /\ LET curr_block_size == Len(B.data) + Len(B.offsets) * 2 + 2
       IN curr_block_size + Len(key) + Len(value) + 3 * 2 > B.block_size

\* the bytes add appends to data for one entry
entry_bytes(overlap, key, value) ==
    LET d1 == put_u16(<<>>, as_u16(overlap))
        d2 == put_u16(d1, as_u16(Len(key) - overlap))
        d3 == d2 \o SubSeq(key, overlap + 1, Len(key))
        d4 == put_u16(d3, as_u16(Len(value)))
    IN d4 \o value

\* add that records the offset before it checks the size
add_push_first(B, key, value) ==
    LET P == [B EXCEPT !.offsets = Append(@, as_u16(Len(B.data)))] IN
    IF is_full(B, key, value)
    THEN [ret |-> FALSE, builder |-> P]
    ELSE LET overlap == compute_key_overlap(B, key) IN
         [ret |-> TRUE,
          builder |-> [offsets |-> P.offsets,
                       data |-> B.data \o entry_bytes(overlap, key, value),
                       block_size |-> B.block_size,
                       first_key |-> IF B.first_key = <<>> THEN key ELSE B.first_key]]

add(B, key, value) ==
    IF is_full(B, key, value)
    THEN [ret |-> FALSE, builder |-> B]
    ELSE LET overlap == compute_key_overlap(B, key) IN
         [ret |-> TRUE,
          builder |-> [offsets |-> Append(B.offsets, as_u16(Len(B.data))),
                       data |-> B.data \o entry_bytes(overlap, key, value),
                       block_size |-> B.block_size,
                       first_key |-> IF B.first_key = <<>> THEN key ELSE B.first_key]]

build(B) == [data |-> B.data, offsets |-> B.offsets]

(***************************************************************************)
(* Block.  A block value is [data, offsets].                               *)
(***************************************************************************)
\* the for loop of encode: each offset as two big-endian bytes, in order
offset_bytes(offs) ==
    [i \in 1..(2 * Len(offs)) |->
        IF i % 2 = 1 THEN offs[(i + 1) \div 2] \div 256 ELSE offs[i \div 2] % 256]

encode(blk) ==
    LET num_of_elements == Len(blk.offsets)
    IN put_u16(blk.data \o offset_bytes(blk.offsets), as_u16(num_of_elements))

\* decode with saturating subtractions: a short buffer gives a block instead of a panic
decode_saturating(buf) ==
    IF Len(buf) < 2 THEN [ok |-> TRUE, block |-> [data |-> <<>>, offsets |-> <<>>]]
    ELSE LET num_of_elements == get_u16(buf, Len(buf) - 1)
             data_end == IF Len(buf) - 2 - num_of_elements * 2 < 0
                         THEN 0
                         ELSE Len(buf) - 2 - num_of_elements * 2
             chunks == (Len(buf) - 2 - data_end) \div 2
         IN [ok |-> TRUE,
             block |-> [data |-> SubSeq(buf, 1, data_end),
                        offsets |-> [i \in 1..chunks |-> get_u16(buf, data_end + 2 * i - 1)]]]

\* decode panics (ok = FALSE) when a slice index is out of range: with overflow
\* checks the subtraction itself panics; without them it wraps to a value above
\* data.len(), and the slice that uses it panics
decode(buf) ==
    IF Len(buf) < 2 THEN [ok |-> FALSE, block |-> [data |-> <<>>, offsets |-> <<>>]]
    ELSE LET num_of_elements == get_u16(buf, Len(buf) - 1)
             data_end == Len(buf) - 2 - num_of_elements * 2
         IN IF data_end < 0
            THEN [ok |-> FALSE, block |-> [data |-> <<>>, offsets |-> <<>>]]
            ELSE [ok |-> TRUE,
                  block |-> [data |-> SubSeq(buf, 1, data_end),
                             offsets |-> [i \in 1..num_of_elements |->
                                             get_u16(buf, data_end + 2 * i - 1)]]]

(***************************************************************************)
(* The block layer as a state machine: a builder is created, entries are   *)
(* added in ascending key order (the caller's contract for a sorted run),  *)
(* build() consumes the builder, the block is encoded and decoded again.   *)
(***************************************************************************)
BlockKeys == UNION { [1..n -> {1, 2}] : n \in 0..MaxKeyLen }

BlockValues == { [i \in 1..n |-> 9] : n \in 0..MaxValueLen }

BlockSizes == MinBlockSize..MaxBlockSize

NoBlock == [data |-> <<>>, offsets |-> <<>>]

TheBuilder ==
    [offsets |-> offsets, data |-> data, block_size |-> block_size, first_key |-> first_key]

InitBlock ==
    /\ \E size \in BlockSizes :
          LET B == BlockBuilder_new(size) IN
          /\ offsets = B.offsets
          /\ data = B.data
          /\ block_size = B.block_size
          /\ first_key = B.first_key
    /\ accepted = <<>>
    /\ arg_key = <<>>
    /\ arg_value = <<>>
    /\ ret = "none"
    /\ bop = "new"
    /\ bphase = "building"
    /\ block = NoBlock
    /\ encoded = <<>>
    /\ decoded = [ok |-> FALSE, block |-> NoBlock]

\* BlockBuilder::add(key, value)
AddEntry(key, value) ==
    /\ bphase = "building"
    /\ LET r == add(TheBuilder, key, value) IN
       /\ offsets' = r.builder.offsets
       /\ data' = r.builder.data
       /\ block_size' = r.builder.block_size
       /\ first_key' = r.builder.first_key
       /\ ret' = IF r.ret THEN "true" ELSE "false"
       /\ accepted' = IF r.ret
                      THEN Append(accepted, [key |-> key, value |-> value, start |-> Len(data)])
                      ELSE accepted
    /\ arg_key' = key
    /\ arg_value' = value
    /\ bop' = "add"
    /\ UNCHANGED << bphase, block, encoded, decoded >>

Add ==
    /\ UNCHANGED << iter_vars, wide_vars, long_vars >>
    /\ Len(offsets) < MaxEntries
    /\ \E key \in BlockKeys, value \in BlockValues :
          /\ IF accepted = <<>> THEN TRUE ELSE LexLess(accepted[Len(accepted)].key, key)
          /\ AddEntry(key, value)

\* BlockBuilder::build()
Build ==
    /\ UNCHANGED << iter_vars, wide_vars, long_vars >>
    /\ bphase = "building"
    /\ block' = build(TheBuilder)
    /\ bphase' = "built"
    /\ bop' = "build"
    /\ UNCHANGED << offsets, data, block_size, first_key, accepted, arg_key, arg_value,
                    ret, encoded, decoded >>

\* Block::encode()
Encode ==
    /\ UNCHANGED << iter_vars, wide_vars, long_vars >>
    /\ bphase = "built"
    /\ encoded' = encode(block)
    /\ bphase' = "encoded"
    /\ bop' = "encode"
    /\ UNCHANGED << offsets, data, block_size, first_key, accepted, arg_key, arg_value,
                    ret, block, decoded >>

\* Block::decode(encoded)
Decode ==
    /\ UNCHANGED << iter_vars, wide_vars, long_vars >>
    /\ bphase = "encoded"
    /\ decoded' = decode(encoded)
    /\ bphase' = "decoded"
    /\ bop' = "decode"
    /\ UNCHANGED << offsets, data, block_size, first_key, accepted, arg_key, arg_value,
                    ret, block, encoded >>

(***************************************************************************)
(* Specifications.  Each layer runs with the other layer idle.             *)
(***************************************************************************)
IdleLong ==
    /\ long_entries = <<>>
    /\ long_size = 0
    /\ long_ret = "none"

IdleIter ==
    /\ stream = <<>>
    /\ end_bound = [kind |-> "Unbounded", key |-> <<>>]
    /\ inner = [pos |-> 1, will_fail |-> FALSE, fail_after |-> 0]
    /\ lsm = "none"
    /\ is_valid = FALSE
    /\ lsm_res = "none"
    /\ fused = "none"
    /\ has_errored = FALSE
    /\ wrapped_err = FALSE
    /\ op = "none"
    /\ res = "none"
    /\ out = <<>>
    /\ wrapped_calls = 0
    /\ inner_calls = 0
    /\ aborted = FALSE

IdleBlock ==
    /\ offsets = <<>>
    /\ data = <<>>
    /\ block_size = 0
    /\ first_key = <<>>
    /\ accepted = <<>>
    /\ arg_key = <<>>
    /\ arg_value = <<>>
    /\ ret = "none"
    /\ bop = "none"
    /\ bphase = "idle"
    /\ block = NoBlock
    /\ encoded = <<>>
    /\ decoded = [ok |-> FALSE, block |-> NoBlock]

NextIter ==
    \/ LsmNew
    \/ LsmNext
    \/ FusedNew
    \/ FusedNext
    \/ FusedKey
    \/ FusedValue

NextBlock ==
    \/ Add
    \/ Build
    \/ Encode
    \/ Decode

(***************************************************************************)
(* Builders that hold up to 2^16 entries.  A builder of block_size         *)
(* WideBlockSize accepts the two-byte keys 00 00, 00 01, ..., FF FF with   *)
(* empty values one after the other.  Prefilled(n, size) is the builder    *)
(* after the first n of these add calls: each entry's bytes are those add  *)
(* appends, the entries are concatenated in order, and an entry's offset   *)
(* is the data length before it, as u16.  SpecWide keeps only n (run) in   *)
(* the state; the builder, the block and its encoding are computed from    *)
(* it.  WideAdd applies add to Prefilled(run) and takes the step only when *)
(* add returns Prefilled(run + 1), so every state reached by WideAdd is    *)
(* the builder the code produces.                                          *)
(***************************************************************************)
key_of(i) == << i \div 256, i % 256 >>

PrefillOverlap(i) == IF i = 0 THEN 0 ELSE overlap_loop(key_of(0), key_of(i), 0)

PrefillEntry(i) == entry_bytes(PrefillOverlap(i), key_of(i), <<>>)

\* the data length before entry i: entries 1..255 share one byte with key 00 00
PrefillStart(i) ==
    8 * i - (IF i <= 1 THEN 0 ELSE IF i <= 256 THEN i - 1 ELSE 255)

RECURSIVE PrefillData(_, _)
PrefillData(lo, hi) ==
    IF lo > hi THEN <<>>
    ELSE IF lo = hi THEN PrefillEntry(lo)
    ELSE LET mid == (lo + hi) \div 2 IN PrefillData(lo, mid) \o PrefillData(mid + 1, hi)

Prefilled(n, size) ==
    [offsets |-> SubSeq([i \in 1..n |-> as_u16(PrefillStart(i - 1))], 1, n),
     data |-> PrefillData(0, n - 1),
     block_size |-> size,
     first_key |-> IF n = 0 THEN <<>> ELSE key_of(0)]

\* the starting points: an empty builder, and builders one and two entries short of
\* 256 and of 2^16 entries
WideStarts == { 0, 254, U16Modulus - 2 }

NoRoundTrip == [done |-> FALSE, ok |-> FALSE, same_data |-> FALSE, same_offsets |-> FALSE]

\* build(), encode() and decode() on the builder, and how the result compares
RoundTripOf(B) ==
    LET blk == build(B)
        d == decode(encode(blk))
    IN [done |-> TRUE,
        ok |-> d.ok,
        same_data |-> d.ok /\ d.block.data = blk.data,
        same_offsets |-> d.ok /\ d.block.offsets = blk.offsets]

IdleWide ==
    /\ run = 0
    /\ wret = "none"
    /\ wphase = "idle"
    /\ round_trip = NoRoundTrip

InitWide ==
    /\ run \in WideStarts
    /\ wret = "none"
    /\ wphase = "building"
    /\ round_trip = NoRoundTrip

\* BlockBuilder::add(key_of(run), empty value) on Prefilled(run, WideBlockSize)
WideAdd ==
    /\ UNCHANGED << iter_vars, block_vars, long_vars >>
    /\ wphase = "building"
    /\ run < U16Modulus
    /\ \E n \in WideStarts : n <= run /\ run < n + MaxRunSteps
    /\ LET r == add(Prefilled(run, WideBlockSize), key_of(run), <<>>) IN
       IF r.ret
       THEN /\ r.builder = Prefilled(run + 1, WideBlockSize)
            /\ run' = run + 1
            /\ wret' = "true"
       ELSE /\ r.builder = Prefilled(run, WideBlockSize)
            /\ run' = run
            /\ wret' = "false"
    /\ UNCHANGED << wphase, round_trip >>

\* BlockBuilder::build()
WideBuild ==
    /\ UNCHANGED << iter_vars, block_vars, long_vars >>
    /\ wphase = "building"
    /\ wphase' = "built"
    /\ UNCHANGED << run, wret, round_trip >>

\* Block::encode()
WideEncode ==
    /\ UNCHANGED << iter_vars, block_vars, long_vars >>
    /\ wphase = "built"
    /\ wphase' = "encoded"
    /\ UNCHANGED << run, wret, round_trip >>

\* Block::decode(encoded)
WideDecode ==
    /\ UNCHANGED << iter_vars, block_vars, long_vars >>
    /\ wphase = "encoded"
    /\ wphase' = "decoded"
    /\ round_trip' = RoundTripOf(Prefilled(run, WideBlockSize))
    /\ UNCHANGED << run, wret >>

NextWide ==
    \/ WideAdd
    \/ WideBuild
    \/ WideEncode
    \/ WideDecode

InitI == InitIter /\ IdleBlock /\ IdleWide /\ IdleLong

SpecIter == InitI /\ [][NextIter]_vars

InitB == InitBlock /\ IdleIter /\ IdleWide /\ IdleLong

SpecBlock == InitB /\ [][NextBlock]_vars

InitW == InitWide /\ IdleIter /\ IdleBlock /\ IdleLong

SpecWide == InitW /\ [][NextWide]_vars

(***************************************************************************)
(* Properties of the iterator layers, checked under SpecIter.              *)
(***************************************************************************)

\* C1: once a wrapped next() has returned an error to the FusedIterator, is_valid() is
\* false in every later state, and every later next() returns the invalid-operation
\* error, makes no wrapped next() call and leaves the inner iterator untouched.
C1_ErrorPermanence ==
    [][ wrapped_err' =>
          /\ ~FusedIterator_is_valid(TheFused)'
          /\ (wrapped_err /\ op' = "fused_next") =>
                /\ res' = "err_invalid_op"
                /\ wrapped_calls' = 0
                /\ inner_calls' = 0
                /\ inner' = inner ]_vars

\* a next() called after the error has returned the invalid-operation error
C1_Witness ==
    /\ wrapped_err
    /\ op = "fused_next"
    /\ res = "err_invalid_op"

\* C2: whenever a LsmIterator is valid after new or next returned Ok, its current key
\* satisfies the end bound.
C2_UpperBound ==
    (lsm = "live" /\ lsm_res = "ok" /\ LsmIterator_is_valid(TheLsm))
        => within_bound(LsmIterator_key(TheLsm))

\* C3: whenever a LsmIterator is valid after new or next returned Ok, its current value
\* is not empty.
C3_NoTombstone ==
    (lsm = "live" /\ lsm_res = "ok" /\ LsmIterator_is_valid(TheLsm))
        => LsmIterator_value(TheLsm) # <<>>

\* a next() that skipped two consecutive tombstones and stopped at a live entry
C3_Witness ==
    /\ lsm = "live"
    /\ lsm_res = "ok"
    /\ op \in {"lsm_next", "fused_next"}
    /\ inner_calls >= 3
    /\ LsmIterator_is_valid(TheLsm)
    /\ LsmIterator_value(TheLsm) # <<>>

\* C7: next() on a FusedIterator that has not errored and whose wrapped iterator is
\* invalid returns Ok, calls no wrapped next(), and leaves has_errored false and
\* is_valid() false.
C7_IdempotentExhaustion ==
    [][ (fused = "live" /\ ~has_errored /\ ~LsmIterator_is_valid(TheLsm)
            /\ op' = "fused_next") =>
          /\ res' = "ok"
          /\ wrapped_calls' = 0
          /\ inner_calls' = 0
          /\ inner' = inner
          /\ ~has_errored'
          /\ ~FusedIterator_is_valid(TheFused)' ]_vars

\* a next() on an exhausted, non-errored FusedIterator has returned Ok
C7_Witness ==
    /\ fused = "live"
    /\ op = "fused_next"
    /\ res = "ok"
    /\ wrapped_calls = 0
    /\ ~has_errored
    /\ ~inner_is_valid(inner)
    /\ ~FusedIterator_is_valid(TheFused)

\* C8: key() and value() called while FusedIterator::is_valid() is false panic and
\* return nothing.
C8_InvalidAccessPanics ==
    [][ (fused = "live" /\ ~FusedIterator_is_valid(TheFused)
            /\ op' \in {"fused_key", "fused_value"}) =>
          /\ res' = "panic"
          /\ aborted'
          /\ out' = out ]_vars

\* key() or value() has panicked on an errored FusedIterator whose wrapped iterator
\* still reports valid
C8_Witness ==
    /\ res = "panic"
    /\ op \in {"fused_key", "fused_value"}
    /\ has_errored
    /\ LsmIterator_is_valid(TheLsm)

(***************************************************************************)
(* Properties of the block layer.                                          *)
(***************************************************************************)
\* the longest common prefix of two byte strings, by its definition
CommonPrefixLen(a, b) ==
    CHOOSE n \in 0..Len(a) :
        /\ n <= Len(b)
        /\ SubSeq(a, 1, n) = SubSeq(b, 1, n)
        /\ (n < Len(a) /\ n < Len(b)) => a[n + 1] # b[n + 1]

\* the fields of the entry stored at byte position start (0-based) of data
StoredOverlap(start) == get_u16(data, start + 1)

StoredSuffix(start) == SubSeq(data, start + 5, start + 4 + get_u16(data, start + 3))

\* C4: the encoded length of a built block does not exceed block_size, unless the
\* block holds exactly one entry.
C4_SizeBudget ==
    (bphase \in {"encoded", "decoded"} /\ Len(block.offsets) # 1)
        => Len(encoded) <= block_size

\* C5: decoding the encoding of a built block gives back the block's data bytes and
\* its offsets (the first conjunct speaks of SpecBlock's blocks, the second of
\* SpecWide's).
C5_RoundTrip ==
    /\ bphase = "decoded" =>
          /\ decoded.ok
          /\ decoded.block.data = block.data
          /\ decoded.block.offsets = block.offsets
    /\ wphase = "decoded" =>
          /\ round_trip.ok
          /\ round_trip.same_data
          /\ round_trip.same_offsets

\* C6: every accepted entry stores as overlap the length of the longest common prefix
\* of its key and the first inserted key (0 for the first entry), and that many bytes
\* of the first inserted key followed by the stored suffix are the entry's key.
C6_PrefixAgainstFirstKey ==
    \A i \in 1..Len(accepted) :
        LET e == accepted[i]
            first == accepted[1].key
        IN /\ StoredOverlap(e.start) =
                 (IF i = 1 THEN 0 ELSE CommonPrefixLen(e.key, first))
           /\ SubSeq(first, 1, StoredOverlap(e.start)) \o StoredSuffix(e.start) = e.key

C10_RejectionNoEffect ==
    [][ (bop' = "add" /\ ret' = "false") =>
          /\ data' = data
          /\ offsets' = offsets
          /\ first_key' = first_key
          /\ block_size' = block_size
          /\ build(TheBuilder)' = build(TheBuilder)
          /\ is_empty(TheBuilder)' = is_empty(TheBuilder) ]_vars

\* a block was built after a rejected add and holds exactly the accepted entries
C10_Witness ==
    /\ bphase = "built"
    /\ ret = "false"
    /\ Len(block.offsets) = Len(accepted)
    /\ block.data = data

(***************************************************************************)
(* Further properties of the iterator layers, checked under SpecIter.      *)
(***************************************************************************)
\* the key lies beyond the end bound (stated without the code's bound test)
BeyondBound(key) ==
    CASE end_bound.kind = "Unbounded" -> FALSE
      [] end_bound.kind = "Included"  -> LexLess(end_bound.key, key)
      [] end_bound.kind = "Excluded"  -> ~LexLess(key, end_bound.key)

\* the inner iterator stands on a key beyond the bound, or has run past one to the end
\* of the stream (the keys ascend, so the last key is then beyond the bound)
BoundPassed ==
    IF inner_is_valid(inner)
    THEN BeyondBound(inner_key(inner))
    ELSE stream # <<>> /\ BeyondBound(stream[Len(stream)].key)

\* the LsmIterator is invalid and the bound has been passed
BoundInvalidated ==
    /\ lsm = "live"
    /\ ~LsmIterator_is_valid(TheLsm)
    /\ BoundPassed

\* C11: once is_valid() is false with the current key beyond the end bound, every
\* further step (each next() advances the inner iterator) leaves is_valid() false with
\* the bound still passed, so is_valid() never becomes true again.
C11_BoundPermanence == [][ BoundInvalidated => BoundInvalidated' ]_vars

\* a next() was called on a LsmIterator already invalidated by the bound, and moved the
\* inner iterator to a further key beyond the bound
C11_Witness ==
    /\ BoundInvalidated
    /\ inner_is_valid(inner)
    /\ op = "lsm_next"
    /\ lsm_res = "ok"
    /\ inner_calls = 1
    /\ inner.pos >= 3
    /\ BeyondBound(stream[inner.pos - 1].key)
    /\ ~BeyondBound(stream[1].key)

\* C12: when an inner next() fails during LsmIterator::new or LsmIterator::next (the
\* first advance or one made while skipping tombstones), the call returns that error,
\* the failing inner call is the last inner call it makes, and it does not return Ok.
C12_ErrorPropagation ==
    [][ (inner.will_fail /\ ~inner'.will_fail) =>
          /\ lsm_res' = "err"
          /\ res' = "err_inner"
          /\ inner_calls' = inner.fail_after + 1 ]_vars

\* a next() whose first advance succeeded has returned the error of an advance made
\* while skipping tombstones
C12_Witness ==
    /\ op = "lsm_next"
    /\ lsm_res = "err"
    /\ res = "err_inner"
    /\ inner_calls >= 2
    /\ ~inner.will_fail

(***************************************************************************)
(* The block layer on the keys "apple" and "application" (SpecExample):    *)
(* the same builder, with these two keys as the inputs of add.             *)
(***************************************************************************)
Apple == << 97, 112, 112, 108, 101 >>

Application == << 97, 112, 112, 108, 105, 99, 97, 116, 105, 111, 110 >>

ExampleKeys == { Apple, Application }

ExampleSizes == MinExampleSize..MaxExampleSize

InitExample ==
    /\ \E size \in ExampleSizes :
          LET B == BlockBuilder_new(size) IN
          /\ offsets = B.offsets
          /\ data = B.data
          /\ block_size = B.block_size
          /\ first_key = B.first_key
    /\ accepted = <<>>
    /\ arg_key = <<>>
    /\ arg_value = <<>>
    /\ ret = "none"
    /\ bop = "new"
    /\ bphase = "building"
    /\ block = NoBlock
    /\ encoded = <<>>
    /\ decoded = [ok |-> FALSE, block |-> NoBlock]

\* BlockBuilder::add(key, value) with one of the two keys
AddExample ==
    /\ UNCHANGED << iter_vars, wide_vars, long_vars >>
    /\ Len(offsets) < MaxEntries
    /\ \E key \in ExampleKeys, value \in BlockValues :
          /\ IF accepted = <<>> THEN TRUE ELSE LexLess(accepted[Len(accepted)].key, key)
          /\ AddEntry(key, value)

NextExample ==
    \/ AddExample
    \/ Build
    \/ Encode
    \/ Decode

InitE == InitExample /\ IdleIter /\ IdleWide /\ IdleLong

SpecExample == InitE /\ [][NextExample]_vars

\* "apple" was accepted first and "application" second
AppleThenApplication ==
    /\ Len(accepted) >= 2
    /\ accepted[1].key = Apple
    /\ accepted[2].key = Application

\* C13: with first key "apple" and second key "application" accepted, the second
\* entry's stored overlap is 5, its stored suffix is "lication", and that many bytes of
\* the first key followed by the suffix are "application".
C13_Example ==
    AppleThenApplication =>
        /\ StoredOverlap(accepted[2].start) = 5
        /\ StoredSuffix(accepted[2].start) = << 108, 105, 99, 97, 116, 105, 111, 110 >>
        /\ SubSeq(Apple, 1, StoredOverlap(accepted[2].start))
              \o StoredSuffix(accepted[2].start) = Application

\* C13, amended: with first key "apple" and second key "application" accepted, the
\* second entry's stored overlap is 4 (the common prefix "appl"), its stored suffix is
\* "ication", and that many bytes of the first key followed by the suffix are
\* "application".
C13_ExampleAmended ==
    AppleThenApplication =>
        /\ StoredOverlap(accepted[2].start) = 4
        /\ StoredSuffix(accepted[2].start) = << 105, 99, 97, 116, 105, 111, 110 >>
        /\ SubSeq(Apple, 1, StoredOverlap(accepted[2].start))
              \o StoredSuffix(accepted[2].start) = Application

\* both keys were accepted, and the block was built, encoded and decoded
C13_Witness ==
    /\ AppleThenApplication
    /\ bphase = "decoded"
    /\ decoded.ok
    /\ decoded.block.data = data

(***************************************************************************)
(* Block::decode on arbitrary buffers (SpecDecode): the caller hands       *)
(* decode any byte buffer, well-formed or not.                             *)
(***************************************************************************)
Buffers == UNION { [1..n -> 0..MaxBufByte] : n \in 0..MaxBufLen }

InitDecode ==
    /\ encoded \in Buffers
    /\ bphase = "encoded"
    /\ bop = "none"
    /\ offsets = <<>>
    /\ data = <<>>
    /\ block_size = 0
    /\ first_key = <<>>
    /\ accepted = <<>>
    /\ arg_key = <<>>
    /\ arg_value = <<>>
    /\ ret = "none"
    /\ block = NoBlock
    /\ decoded = [ok |-> FALSE, block |-> NoBlock]

InitD == InitDecode /\ IdleIter /\ IdleWide /\ IdleLong

SpecDecode == InitD /\ [][Decode]_vars

\* the buffer is shorter than 2 + 2n bytes, n being the count in its last two bytes
Malformed(buf) ==
    \/ Len(buf) < 2
    \/ Len(buf) < 2 + 2 * get_u16(buf, Len(buf) - 1)

\* C14: decode of a buffer shorter than 2 + 2n bytes, n being the 16-bit count in its
\* last two bytes, or shorter than 2 bytes, fails and returns no Block.
C14_MalformedFails ==
    (bphase = "decoded" /\ Malformed(encoded)) => ~decoded.ok

\* decode has failed on a buffer that holds a count but too few bytes for it
C14_Witness ==
    /\ bphase = "decoded"
    /\ Len(encoded) >= 3
    /\ Malformed(encoded)
    /\ ~decoded.ok

\* decode returns a block when the buffer is long enough for its count
DecodeWellFormed ==
    (bphase = "decoded" /\ ~Malformed(encoded)) =>
        /\ decoded.ok
        /\ Len(decoded.block.data) + 2 * Len(decoded.block.offsets) + 2 = Len(encoded)

(***************************************************************************)
(* A scan, step by step (SpecIter).                                        *)
(***************************************************************************)
\* entry i of the inner stream has a non-empty value and a key within the bound
LiveInRange(i) ==
    /\ stream[i].value # <<>>
    /\ ~BeyondBound(stream[i].key)

\* every live in-range entry from position from on is still ahead of, or under, the
\* cursor of a valid iterator
NoneSkipped(from, it, valid) ==
    \A i \in from..Len(stream) : LiveInRange(i) => (valid /\ it.pos <= i)

\* C15: a scan skips no live in-range entry and surfaces each once, in stream order:
\* new() stops at or before the first live in-range entry; each next() on a valid
\* iterator moves the inner cursor forward and stops at or before the next live
\* in-range entry; the iterator turns invalid only when none is left.
C15_Completeness ==
    [][ /\ (op' = "lsm_new" /\ lsm_res' = "ok") => NoneSkipped(1, inner', is_valid')
        /\ (/\ op' \in {"lsm_next", "fused_next"}
            /\ LsmIterator_is_valid(TheLsm)
            /\ ~has_errored
            /\ lsm_res' = "ok") =>
              /\ inner'.pos > inner.pos
              /\ NoneSkipped(inner.pos + 1, inner', is_valid') ]_vars

\* a scan under a bound has ended at the bound after surfacing two live entries with a
\* tombstone between them
C15_Witness ==
    /\ op \in {"lsm_next", "fused_next"}
    /\ lsm_res = "ok"
    /\ ~LsmIterator_is_valid(TheLsm)
    /\ inner_is_valid(inner)
    /\ inner.pos = 4
    /\ LiveInRange(1)
    /\ stream[2].value = <<>>
    /\ LiveInRange(3)
    /\ ~inner.will_fail

(***************************************************************************)
(* Builders given long values (SpecLong).  The state keeps what the caller *)
(* passed to the accepted add calls, each value by its length (a value is  *)
(* that many bytes 9); LongBuilder applies add to these entries in order,  *)
(* so it is the builder the code holds after them.                         *)
(***************************************************************************)
LongValue(n) == SubSeq([i \in 1..n |-> 9], 1, n)

LongKeys == { <<>>, <<1>>, <<2>> }

LongValueLens == { 0, 1, LongValueLen }

\* block sizes: one far below the long entry, and the sizes around 65547, from which on
\* a second entry fits behind a first entry of 65536 bytes
LongSizes == { MaxBlockSize, LongBlockSize - 54, LongBlockSize - 53, LongBlockSize }

RECURSIVE LongBuilder(_, _)
LongBuilder(entries, size) ==
    IF entries = <<>> THEN BlockBuilder_new(size)
    ELSE LET e == entries[Len(entries)]
             B == LongBuilder(SubSeq(entries, 1, Len(entries) - 1), size)
         IN add(B, e.key, LongValue(e.value_len)).builder

InitLong ==
    /\ long_entries = <<>>
    /\ long_size \in LongSizes
    /\ long_ret = "none"

\* BlockBuilder::add(key, value) on LongBuilder(long_entries, long_size)
LongAdd ==
    /\ UNCHANGED << iter_vars, block_vars, wide_vars >>
    /\ Len(long_entries) < MaxEntries
    /\ \E key \in LongKeys, n \in LongValueLens :
          /\ IF long_entries = <<>> THEN TRUE
             ELSE LexLess(long_entries[Len(long_entries)].key, key)
          /\ LET r == add(LongBuilder(long_entries, long_size), key, LongValue(n)) IN
             /\ long_entries' = IF r.ret
                                THEN Append(long_entries, [key |-> key, value_len |-> n])
                                ELSE long_entries
             /\ long_ret' = IF r.ret THEN "true" ELSE "false"
    /\ UNCHANGED long_size

InitL == InitLong /\ IdleIter /\ IdleBlock /\ IdleWide

SpecLong == InitL /\ [][LongAdd]_vars

\* the byte position in data where entry i begins: the data length before it was added
LongStart(i) == Len(LongBuilder(SubSeq(long_entries, 1, i - 1), long_size).data)

\* C16: offsets has one element per accepted entry, offsets[i] is the byte position in
\* data where entry i begins, and offsets is strictly increasing (the first conjunct
\* speaks of SpecBlock's builders, the second of SpecLong's).
C16_OffsetIndex ==
    /\ /\ Len(offsets) = Len(accepted)
       /\ \A i \in 1..Len(accepted) : offsets[i] = accepted[i].start
       /\ \A i \in 1..(Len(offsets) - 1) : offsets[i] < offsets[i + 1]
    /\ LET B == LongBuilder(long_entries, long_size) IN
       /\ Len(B.offsets) = Len(long_entries)
       /\ \A i \in 1..Len(long_entries) : B.offsets[i] = LongStart(i)
       /\ \A i \in 1..(Len(B.offsets) - 1) : B.offsets[i] < B.offsets[i + 1]

(***************************************************************************)
(* The layout of an encoded block.                                         *)
(***************************************************************************)
\* buf is blk.data, then blk's n offsets as big-endian 16-bit values, then n as a
\* big-endian 16-bit value
Layout(blk, buf) ==
    LET n == Len(blk.offsets)
        d == Len(blk.data)
    IN /\ Len(buf) = d + 2 * n + 2
       /\ SubSeq(buf, 1, d) = blk.data
       /\ \A i \in 1..n : get_u16(buf, d + 2 * i - 1) = blk.offsets[i]
       /\ get_u16(buf, Len(buf) - 1) = n

EncodedLayout == Layout(block, encoded)

WideEncodedLayout ==
    \A blk \in { build(Prefilled(run, WideBlockSize)) } :
        \A buf \in { encode(blk) } : Layout(blk, buf)

\* C17: encode() of a block with n offsets returns data.len() + 2n + 2 bytes: data
\* unchanged, then the n offsets in order as big-endian 16-bit values, then n as a
\* big-endian 16-bit value in the last two bytes; the block is still what build()
\* returned (the first conjunct speaks of SpecBlock's blocks, the second of SpecWide's).
C17_EncodeLayout ==
    /\ bphase \in {"encoded", "decoded"} =>
          /\ block = build(TheBuilder)
          /\ EncodedLayout
    /\ wphase = "encoded" => WideEncodedLayout

(***************************************************************************)
(* The FusedIterator against the iterator it wraps (SpecIter).             *)
(***************************************************************************)
\* C18: while no wrapped next() has failed, is_valid() is the wrapped is_valid(); key()
\* and value() on a valid iterator return the wrapped key and value; next() on a valid
\* iterator makes one wrapped next() call and leaves the wrapped iterator where that
\* call alone leaves it, and next() on an invalid iterator leaves it untouched.
C18_Transparency ==
    [][ (fused = "live" /\ ~wrapped_err) =>
          /\ FusedIterator_is_valid(TheFused) = LsmIterator_is_valid(TheLsm)
          /\ (op' = "fused_key" /\ LsmIterator_is_valid(TheLsm)) =>
                (res' = "ok" /\ out' = LsmIterator_key(TheLsm))
          /\ (op' = "fused_value" /\ LsmIterator_is_valid(TheLsm)) =>
                (res' = "ok" /\ out' = LsmIterator_value(TheLsm))
          /\ (op' = "fused_next" /\ LsmIterator_is_valid(TheLsm)) =>
                LET r == LsmIterator_next(TheLsm) IN
                /\ wrapped_calls' = 1
                /\ inner_calls' = r.calls
                /\ (res' = "ok") = r.ok
                /\ inner' = r.lsm.inner
                /\ is_valid' = r.lsm.is_valid
          /\ (op' = "fused_next" /\ ~LsmIterator_is_valid(TheLsm)) =>
                /\ wrapped_calls' = 0
                /\ inner' = inner
                /\ is_valid' = is_valid ]_vars

\* value() has returned the wrapped iterator's value, past the first entry of the stream
C18_Witness ==
    /\ fused = "live"
    /\ ~wrapped_err
    /\ op = "fused_value"
    /\ res = "ok"
    /\ out = LsmIterator_value(TheLsm)
    /\ out # LsmIterator_key(TheLsm)
    /\ inner.pos >= 2

(***************************************************************************)
(* A scan through the FusedIterator (SpecScan): the inner stream is finite *)
(* and its next() never fails; the caller constructs the LsmIterator,      *)
(* wraps it, and calls next() while is_valid() is true.  The caller's loop *)
(* keeps running, so the next call is taken whenever there is one to take  *)
(* (weak fairness of the caller's step).                                   *)
(***************************************************************************)
InitScan ==
    /\ InitIter
    /\ ~inner.will_fail
    /\ Len(stream) <= MaxScanLen

\* the caller's loop: while iter.is_valid() { iter.next()?; }
ScanNext ==
    /\ FusedIterator_is_valid(TheFused)
    /\ FusedNext

NextScan ==
    \/ LsmNew
    \/ FusedNew
    \/ ScanNext

InitS == InitScan /\ IdleBlock /\ IdleWide /\ IdleLong

SpecScan == InitS /\ [][NextScan]_vars /\ WF_vars(NextScan)

\* C19: every call of the scan returns after as many inner next() calls as it advanced
\* the inner cursor by, the cursor never goes more than one past the last entry (so
\* the whole scan makes at most Len(stream) inner advances), and the scan reaches
\* is_valid() = false.
C19_ScanTermination ==
    /\ [][ inner_calls' = inner'.pos - inner.pos ]_vars
    /\ [](inner.pos <= Len(stream) + 1)
    /\ <>(fused = "live" /\ ~FusedIterator_is_valid(TheFused))

\* a scan has ended at the end of its stream, the last call stepping off a live entry
\* and skipping the tombstone behind it
C19_Witness ==
    /\ fused = "live"
    /\ ~FusedIterator_is_valid(TheFused)
    /\ op = "fused_next"
    /\ res = "ok"
    /\ inner_calls = 2
    /\ Len(stream) >= 2
    /\ inner.pos = Len(stream) + 1

====
